---- MODULE Spec2Model ----
(***************************************************************************)
(* Model of ticket_monitor.py: the per-tick pipeline check_recent_tickets  *)
(* (fetch, filter, mark, classify, notify), the processed-set file, the    *)
(* scheduler loop schedule_job and the classifier is_urgent.               *)
(*                                                                         *)
(* Time is counted in seconds. Everything the environment does (a ticket   *)
(* is opened, a blocking call returns) happens on a grid of ClockStep      *)
(* seconds, a multiple of the scheduler's sleep, so that every instant of  *)
(* the grid is one at which the scheduler polls.                           *)
(***************************************************************************)
EXTENDS Integers, Sequences, FiniteSets, TLC

(* ------------------------------ bounds -------------------------------- *)
NumIds == 2
MaxBatch == 3
MaxSteps == 4
MaxCrashes == 1
MaxReplyLen == 5

(* ------------------------- program constants -------------------------- *)
\* timedelta(minutes=1), in seconds
RecentCutoffDelta == 60
\* schedule.every(1).minutes, in seconds
EveryPeriod == 60
\* time.sleep(10), in seconds
SleepDelay == 10

\* the grid of the environment's events, and the last instant explored
ClockStep == 3 * SleepDelay
MaxTime == MaxSteps * ClockStep

VARIABLES
    now,            \* wall clock (datetime.now), seconds since the process started
    world,          \* the helpdesk's tickets, by identifier
    file,           \* processed_tickets.txt, one line per element
    schedPc,        \* scheduler thread: "sleep", "job" or "dead"
    nextRun,        \* the job's next_run
    wakeAt,         \* end of the current time.sleep(10)
    active,         \* invocations of check_recent_tickets in progress
    pc,             \* position inside check_recent_tickets
    fetch_status,   \* outcome of requests.get in the current tick
    tickets,        \* local: the fetched batch
    processed_ids,  \* local: the set loaded by read_processed_ids
    recent_cutoff,  \* local: now - 1 minute
    idx,            \* local: position of the for loop in tickets (1-based)
    urgent,         \* local: result of is_urgent for the current ticket
    calls,          \* log of the calls made by the current tick, in order
    crashes,        \* number of process restarts so far
    alerted,        \* identifiers send_alert_email was ever invoked for
    gptOutcome,     \* outcome of client.chat.completions.create
    gptPc,          \* position of a stand-alone is_urgent call
    gptResult       \* value returned by the stand-alone is_urgent call

vars == <<now, world, file, schedPc, nextRun, wakeAt, active, pc, fetch_status,
          tickets, processed_ids, recent_cutoff, idx, urgent, calls, crashes, alerted,
          gptOutcome, gptPc, gptResult>>

worldVars == <<now, world>>
tickVars == <<pc, fetch_status, tickets, processed_ids, recent_cutoff, idx, urgent>>
schedVars == <<schedPc, nextRun, wakeAt, active>>
gptVars == <<gptOutcome, gptPc, gptResult>>

Ids == 1..NumIds

(* ------------------------------ tickets ------------------------------- *)
\* ticket.get("subject", ""): identifier 1 carries a subject, the others none
SubjectOf(id) == IF id = 1 THEN "Site down" ELSE ""

\* a ticket the helpdesk has not created yet
NoTicket == [created |-> FALSE, created_at |-> 0, valid_ts |-> TRUE, responder_id |-> "None"]

\* the JSON object the list endpoint returns for ticket id
TicketJson(id) ==
    [id |-> id,
     created_at |-> world[id].created_at,
     valid_ts |-> world[id].valid_ts,
     responder_id |-> world[id].responder_id,
     subject |-> SubjectOf(id)]

\* str(ticket["id"])
Str(id) == ToString(id)

(* ------------------------- processed-set store ------------------------ *)
\* a plausible slip: the file is looked for under another name, and never found
read_processed_ids_missing(f) == {}

\* lines 120-124: the set of the stripped lines of the file
read_processed_ids(f) == {f[k] : k \in DOMAIN f}

\* a plausible slip: the file is opened with "w", and holds the last line only
mark_processed_rewrite(f, ticket_id) == <<ticket_id>>

\* a plausible slip: the line is written after the notification, not before
mark_processed_deferred(f, ticket_id) == f

\* lines 127-129: one more line at the end of the file
mark_processed(f, ticket_id) == Append(f, ticket_id)

\* the number of lines of the file that hold the given identifier
Count(f, line) == Cardinality({k \in DOMAIN f : f[k] = line})

(* --------------------------- is_urgent -------------------------------- *)
\* characters a reply is drawn from
Chars == {"t", "r", "u", "e", "T", "R", " "}

\* str.lower on one character
LowerChar(c) == CASE c = "T" -> "t" [] c = "R" -> "r" [] OTHER -> c

\* str.lower
Lower(s) == [k \in DOMAIN s |-> LowerChar(s[k])]

RECURSIVE LStrip(_)
LStrip(s) == IF s # <<>> /\ Head(s) = " " THEN LStrip(Tail(s)) ELSE s

RECURSIVE RStrip(_)
RStrip(s) == IF s # <<>> /\ s[Len(s)] = " " THEN RStrip(SubSeq(s, 1, Len(s) - 1)) ELSE s

\* str.strip
Strip(s) == RStrip(LStrip(s))

\* the literal "true" of line 81
TrueLiteral == <<"t", "r", "u", "e">>

\* needle in hay, for Python strings
RECURSIVE In(_, _)
In(needle, hay) ==
    IF Len(hay) < Len(needle) THEN FALSE
    ELSE IF SubSeq(hay, 1, Len(needle)) = needle THEN TRUE
    ELSE In(needle, Tail(hay))

\* a plausible slip: the reply searched without lower-casing it
is_urgent_nolower(o) ==
    IF o.kind = "text" THEN In(TrueLiteral, Strip(o.content)) ELSE FALSE

\* is_urgent on the outcome o of the model call: o.kind is "text" (a reply with
\* content), "none" (a reply whose content is None: .strip() raises
\* AttributeError inside the try) or "exception" (the call raised)
is_urgent(o) ==
    IF o.kind = "text" THEN In(TrueLiteral, Lower(Strip(o.content))) ELSE FALSE

RECURSIVE SeqsUpTo(_)
SeqsUpTo(n) ==
    IF n = 0 THEN {<<>>}
    ELSE LET shorter == SeqsUpTo(n - 1)
         IN shorter \cup {Append(s, c) : s \in {t \in shorter : Len(t) = n - 1}, c \in Chars}

\* every outcome of the model call within the bound
GptOutcomes ==
    {[kind |-> "text", content |-> s] : s \in SeqsUpTo(MaxReplyLen)}
        \cup {[kind |-> "none", content |-> <<>>], [kind |-> "exception", content |-> <<>>]}

\* the outcomes the pipeline is run against
TickOutcomes ==
    {[kind |-> "text", content |-> <<"T", "r", "u", "e">>],
     [kind |-> "text", content |-> <<" ", "t", "R", "u", "e", " ">>],
     [kind |-> "text", content |-> <<"t", "r", "u">>],
     [kind |-> "text", content |-> <<>>],
     [kind |-> "none", content |-> <<>>],
     [kind |-> "exception", content |-> <<>>]}

(* ------------------------ fetch_recent_tickets ------------------------ *)
FetchStatuses == {"200", "500", "exception"}

\* the identifiers of the tickets the helpdesk holds
Created == {id \in Ids : world[id].created}

RECURSIVE SeqsOver(_, _)
SeqsOver(S, n) ==
    IF n = 0 THEN {<<>>}
    ELSE LET shorter == SeqsOver(S, n - 1)
         IN shorter \cup {Append(s, x) : s \in {t \in shorter : Len(t) = n - 1}, x \in S}

\* the pages the list endpoint may answer with: tickets it holds, in any order
Bodies == {[k \in DOMAIN ids |-> TicketJson(ids[k])] : ids \in SeqsOver(Created, MaxBatch)}

\* a plausible slip: the body is returned whatever the status
fetch_recent_tickets_unchecked(status, body) == body

\* lines 50-62: the parsed body on status 200, [] on any other status or exception
fetch_recent_tickets(status, body) == IF status = "200" THEN body ELSE <<>>

(* ------------------------ check_recent_tickets ------------------------ *)
\* a plausible slip: the processed set is not consulted
SkipNoProcessed(t, processed, cutoff) ==
    \/ t.created_at < cutoff
    \/ t.responder_id # "None"

\* a plausible slip: the recency cutoff is not applied
SkipNoCutoff(t, processed, cutoff) ==
    \/ Str(t.id) \in processed
    \/ t.responder_id # "None"

\* a plausible slip: assigned tickets are not skipped
SkipNoResponder(t, processed, cutoff) ==
    \/ Str(t.id) \in processed
    \/ t.created_at < cutoff

\* lines 148-153: the three "continue" tests of the for loop
Skip(t, processed, cutoff) ==
    \/ Str(t.id) \in processed
    \/ t.created_at < cutoff
    \/ t.responder_id # "None"

\* a plausible slip: the subject is passed on as it is
SubjectArgRaw(subject) == subject

\* line 171: subject or "No Subject"
SubjectArg(subject) == IF subject = "" THEN "No Subject" ELSE subject

\* a plausible slip: no try/except around the evaluation of one ticket
AfterTicketNoTry(raised) == IF raised THEN "raise" ELSE "continue"

\* lines 166-176: whether or not the try block raised, the for loop goes on
AfterTicket(raised) == "continue"

SendOutcomes == {"sent", "smtp_error", "compose_error"}

\* one entry of the log of calls: the function, the place in the batch of the
\* ticket it was called for, its first argument, what it returned, and whether
\* an exception was raised inside it
Call(op, pos, arg, ret, raised) ==
    [op |-> op, pos |-> pos, arg |-> arg, ret |-> ret, raised |-> raised]

\* the locals of check_recent_tickets, gone when it is left
LocalsGone ==
    /\ fetch_status' = "none"
    /\ tickets' = <<>>
    /\ processed_ids' = {}
    /\ recent_cutoff' = 0
    /\ idx' = 1
    /\ urgent' = FALSE
    /\ calls' = <<>>

\* check_recent_tickets returns to run_pending, which reschedules the job
JobReturns ==
    /\ pc' = "idle"
    /\ LocalsGone
    /\ schedPc' = "sleep"
    /\ nextRun' = now + EveryPeriod
    /\ wakeAt' = now + SleepDelay
    /\ active' = active - 1

\* an exception leaves check_recent_tickets, run_pending and schedule_job
JobRaises ==
    /\ pc' = "idle"
    /\ LocalsGone
    /\ schedPc' = "dead"
    /\ active' = active - 1
    /\ UNCHANGED <<nextRun, wakeAt>>

\* a plausible slip: the job is started without waiting for the running one
RunPendingReadyAsync == schedPc \in {"sleep", "job"} /\ now >= wakeAt

\* lines 183-185: run_pending is called when time.sleep(10) is over
RunPendingReady == schedPc = "sleep" /\ now >= wakeAt

\* schedule.run_pending(): start the job if it is due, else sleep again
RunPending ==
    /\ RunPendingReady
    /\ IF now >= nextRun
       THEN /\ schedPc' = "job"
            /\ active' = active + 1
            /\ pc' = "fetch"
            /\ UNCHANGED <<nextRun, wakeAt, fetch_status, tickets, processed_ids,
                           recent_cutoff, idx, urgent, calls>>
       ELSE /\ wakeAt' = now + SleepDelay
            /\ UNCHANGED <<schedPc, nextRun, active, tickVars, calls>>
    /\ UNCHANGED <<worldVars, file, crashes, alerted, gptVars>>

\* line 135: tickets = fetch_recent_tickets()
Fetch ==
    /\ pc = "fetch"
    /\ \E status \in FetchStatuses, body \in Bodies :
          /\ fetch_status' = status
          /\ tickets' = fetch_recent_tickets(status, body)
    /\ pc' = "fetched"
    /\ UNCHANGED <<worldVars, file, schedVars, processed_ids, recent_cutoff, idx,
                   urgent, calls, crashes, alerted, gptVars>>

\* lines 137-142: return on an empty batch, else load the set and the cutoff
Load ==
    /\ pc = "fetched"
    /\ IF tickets = <<>>
       THEN JobReturns
       ELSE /\ processed_ids' = read_processed_ids(file)
            /\ recent_cutoff' = now - RecentCutoffDelta
            /\ idx' = 1
            /\ pc' = "loop"
            /\ UNCHANGED <<schedVars, fetch_status, tickets, urgent, calls>>
    /\ UNCHANGED <<worldVars, file, crashes, alerted, gptVars>>

\* lines 144-164: one pass of the for loop up to mark_processed
Loop ==
    /\ pc = "loop"
    /\ IF idx > Len(tickets)
       THEN /\ JobReturns
            /\ UNCHANGED file
       ELSE LET t == tickets[idx] IN
            IF ~t.valid_ts
            THEN /\ JobRaises
                 /\ UNCHANGED file
            ELSE IF Skip(t, processed_ids, recent_cutoff)
            THEN /\ idx' = idx + 1
                 /\ UNCHANGED <<pc, schedVars, file, calls, fetch_status, tickets,
                                processed_ids, recent_cutoff, urgent>>
            ELSE /\ file' = mark_processed(file, Str(t.id))
                 /\ calls' = Append(calls, Call("mark_processed", idx, Str(t.id), "None", FALSE))
                 /\ pc' = "classify"
                 /\ UNCHANGED <<schedVars, idx, fetch_status, tickets, processed_ids,
                                recent_cutoff, urgent>>
    /\ UNCHANGED <<worldVars, crashes, alerted, gptVars>>

\* lines 167-173: urgent = is_urgent(full_text)
Classify ==
    /\ pc = "classify"
    /\ \E o \in TickOutcomes :
          /\ urgent' = is_urgent(o)
          /\ calls' = Append(calls, Call("is_urgent", idx, tickets[idx].subject,
                                     IF urgent' THEN "True" ELSE "False", o.kind # "text"))
    /\ IF urgent'
       THEN pc' = "send" /\ idx' = idx
       ELSE pc' = "loop" /\ idx' = idx + 1
    /\ UNCHANGED <<worldVars, file, schedVars, fetch_status, tickets, processed_ids,
                   recent_cutoff, crashes, alerted, gptVars>>

\* line 171 and lines 174-176: send_alert_email, and the handler around it
Send ==
    /\ pc = "send"
    /\ \E outcome \in SendOutcomes :
          /\ IF AfterTicket(outcome = "compose_error") = "continue"
             THEN /\ calls' = Append(calls, Call("send_alert_email", idx,
                                    SubjectArg(tickets[idx].subject), "None", outcome # "sent"))
                  /\ pc' = "loop"
                  /\ idx' = idx + 1
                  /\ UNCHANGED <<schedVars, fetch_status, tickets, processed_ids,
                                 recent_cutoff, urgent>>
             ELSE JobRaises
    /\ alerted' = alerted \cup {tickets[idx].id}
    /\ UNCHANGED <<worldVars, file, crashes, gptVars>>

(* --------------------------- environment ------------------------------ *)
\* time passes, up to the next instant of the grid; the scheduler's sleep does
\* not overrun, so a poll that is due is made first
Advance ==
    /\ now < MaxTime
    /\ ~RunPendingReady
    /\ now' = now + ClockStep
    /\ UNCHANGED <<world, file, schedVars, tickVars, calls, crashes, alerted, gptVars>>

\* a customer opens the next ticket; its timestamp may be malformed
CreateTicket ==
    /\ \E id \in Ids \ Created, ok \in BOOLEAN :
          /\ \A lower \in 1..(id - 1) : lower \in Created
          /\ world' = [world EXCEPT ![id] =
                          [created |-> TRUE, created_at |-> now, valid_ts |-> ok,
                           responder_id |-> "None"]]
    /\ UNCHANGED <<now, file, schedVars, tickVars, calls, crashes, alerted, gptVars>>

\* an agent takes a ticket, or gives it back
Assign ==
    /\ \E id \in Created :
          world' = [world EXCEPT ![id].responder_id =
                       IF world[id].responder_id = "None" THEN "42" ELSE "None"]
    /\ UNCHANGED <<now, file, schedVars, tickVars, calls, crashes, alerted, gptVars>>

\* the process is killed and started again (lines 189-198); the file stays
Crash ==
    /\ crashes < MaxCrashes
    /\ crashes' = crashes + 1
    /\ schedPc' = "sleep"
    /\ nextRun' = now + EveryPeriod
    /\ wakeAt' = now
    /\ active' = 0
    /\ pc' = "idle"
    /\ LocalsGone
    /\ UNCHANGED <<worldVars, file, alerted, gptVars>>

(* --------------------------- specification ---------------------------- *)
Init ==
    /\ now = 0
    /\ world = [id \in Ids |-> NoTicket]
    /\ file = <<>>
    /\ schedPc = "sleep"
    /\ nextRun = EveryPeriod
    /\ wakeAt = 0
    /\ active = 0
    /\ pc = "idle"
    /\ fetch_status = "none"
    /\ tickets = <<>>
    /\ processed_ids = {}
    /\ recent_cutoff = 0
    /\ idx = 1
    /\ urgent = FALSE
    /\ calls = <<>>
    /\ crashes = 0
    /\ alerted = {}
    /\ gptOutcome = [kind |-> "none", content |-> <<>>]
    /\ gptPc = "called"
    /\ gptResult = FALSE

Next ==
    \/ RunPending
    \/ Fetch
    \/ Load
    \/ Loop
    \/ Classify
    \/ Send
    \/ Advance
    \/ CreateTicket
    \/ Assign

Spec == Init /\ [][Next]_vars

\* the same, with the process killed and restarted at any point
NextRestart == Next \/ Crash

SpecRestart == Init /\ [][NextRestart]_vars

(* ------------------- is_urgent as a function of the reply -------------- *)
\* lines 72-85, called once on an arbitrary outcome of the model call
IsUrgentCall ==
    /\ gptPc = "called"
    /\ gptResult' = is_urgent(gptOutcome)
    /\ gptPc' = "returned"
    /\ UNCHANGED <<now, world, file, schedVars, tickVars, calls, crashes, alerted,
                   gptOutcome>>

InitUrgent ==
    /\ now = 0
    /\ world = [id \in Ids |-> NoTicket]
    /\ file = <<>>
    /\ schedPc = "sleep"
    /\ nextRun = EveryPeriod
    /\ wakeAt = 0
    /\ active = 0
    /\ pc = "idle"
    /\ fetch_status = "none"
    /\ tickets = <<>>
    /\ processed_ids = {}
    /\ recent_cutoff = 0
    /\ idx = 1
    /\ urgent = FALSE
    /\ calls = <<>>
    /\ crashes = 0
    /\ alerted = {}
    /\ gptOutcome \in GptOutcomes
    /\ gptPc = "called"
    /\ gptResult = FALSE

NextUrgent == IsUrgentCall

SpecUrgent == InitUrgent /\ [][NextUrgent]_vars

(* ============================ properties ============================== *)
\* the for loop of a tick is under way (its locals are live)
InLoop == pc \in {"loop", "classify", "send"}

\* the places of the batch the for loop has gone past
Passed == {p \in DOMAIN tickets : p < idx}

\* the places of the batch that survived the filter so far: those gone past,
\* and the one whose classification or notification is under way
Reached == Passed \cup (IF pc \in {"classify", "send"} THEN {idx} ELSE {})

\* the entries of the log for function op at place p
CallsAt(op, p) == {k \in DOMAIN calls : calls[k].op = op /\ calls[k].pos = p}

\* the entries of the log for function op on the ticket with identifier id
CallsFor(op, id) == {k \in DOMAIN calls : calls[k].op = op /\ tickets[calls[k].pos].id = id}

\* ticket t was created at or after the cutoff of the tick
Recent(t) == t.valid_ts /\ t.created_at >= recent_cutoff

\* ticket t is eligible in the tick: not in the loaded set, recent, unassigned
Eligible(t) ==
    /\ Str(t.id) \notin processed_ids
    /\ Recent(t)
    /\ t.responder_id = "None"

\* C1: a ticket whose identifier is in the processed set the tick loaded gets no
\* is_urgent call and no send_alert_email call in that tick, and the loaded
\* identifiers stay in the file, so that the same holds of every later tick.
C1_ProcessedNotReprocessed ==
    InLoop =>
        /\ \A p \in DOMAIN tickets :
              Str(tickets[p].id) \in processed_ids =>
                  /\ CallsFor("is_urgent", tickets[p].id) = {}
                  /\ CallsFor("send_alert_email", tickets[p].id) = {}
        /\ processed_ids \subseteq read_processed_ids(file)

\* the loop went past a recent, unassigned ticket that an earlier tick marked
C1_Witness ==
    /\ InLoop
    /\ \E p \in Passed :
          /\ Str(tickets[p].id) \in processed_ids
          /\ Recent(tickets[p])
          /\ tickets[p].responder_id = "None"

\* C2 (as stated): every identifier is appended to the file at most once, over
\* any sequence of ticks.
C2_AppendedAtMostOnce == \A id \in Ids : Count(file, Str(id)) <= 1

\* C2 (amended): in a tick, an identifier that was not in the loaded set has been
\* appended once for each place at which the loop met the ticket eligible, whether
\* or not is_urgent or send_alert_email failed there (so exactly once when the
\* batch holds the identifier once), and an identifier that was in the loaded
\* set is not appended by the tick.
C2_MarkedOncePerEligiblePlace ==
    InLoop =>
        \A id \in Ids :
            LET places == {p \in Reached : tickets[p].id = id /\ Eligible(tickets[p])}
            IN /\ Cardinality(CallsFor("mark_processed", id)) = Cardinality(places)
               /\ \A p \in places : Cardinality(CallsAt("mark_processed", p)) = 1
               /\ Str(id) \notin processed_ids => Count(file, Str(id)) = Cardinality(places)
               /\ Str(id) \in processed_ids => CallsFor("mark_processed", id) = {}

\* the loop went past an eligible ticket whose classification raised, and its
\* identifier is in the file exactly once
C2_Witness ==
    /\ InLoop
    /\ \E p \in Passed :
          /\ Eligible(tickets[p])
          /\ \E k \in CallsAt("is_urgent", p) : calls[k].raised
          /\ Count(file, Str(tickets[p].id)) = 1

\* C3: a fetched ticket with a responder gets no classification call, no
\* notification and no mark in the tick: its identifier is in the file only if
\* it was there when the tick loaded the set.
C3_AssignedSkipped ==
    InLoop =>
        \A p \in DOMAIN tickets :
            tickets[p].responder_id # "None" =>
                /\ \A k \in DOMAIN calls : calls[k].pos # p
                /\ Str(tickets[p].id) \in read_processed_ids(file)
                      => Str(tickets[p].id) \in processed_ids

\* the loop went past an assigned ticket that is recent and was never marked
C3_Witness ==
    /\ InLoop
    /\ \E p \in Passed :
          /\ tickets[p].responder_id # "None"
          /\ Recent(tickets[p])
          /\ Str(tickets[p].id) \notin read_processed_ids(file)

\* C4: a fetched ticket created before the cutoff of the tick gets no
\* classification call, no notification and no mark in the tick, whether or not
\* its identifier is in the processed set.
C4_OldSkipped ==
    InLoop =>
        \A p \in DOMAIN tickets :
            (tickets[p].valid_ts /\ tickets[p].created_at < recent_cutoff) =>
                /\ \A k \in DOMAIN calls : calls[k].pos # p
                /\ Str(tickets[p].id) \in read_processed_ids(file)
                      => Str(tickets[p].id) \in processed_ids

\* the loop went past an unassigned ticket, not in the processed set, that was
\* created before the cutoff
C4_Witness ==
    /\ InLoop
    /\ \E p \in Passed :
          /\ tickets[p].valid_ts
          /\ tickets[p].created_at < recent_cutoff
          /\ tickets[p].responder_id = "None"
          /\ Str(tickets[p].id) \notin processed_ids

\* C5: when the fetch fails (a status other than 200, or an exception),
\* fetch_recent_tickets returns the empty list without raising, and the tick
\* then returns having made no call and leaving the file as it was.
C5_FailedFetchDoesNothing ==
    [][/\ (pc = "fetch" /\ pc' = "fetched" /\ fetch_status' # "200") =>
              (tickets' = <<>> /\ schedPc' = "job" /\ file' = file /\ calls' = <<>>)
       /\ (pc = "fetched" /\ fetch_status # "200" /\ pc' # "fetched") =>
              (pc' = "idle" /\ schedPc' = "sleep" /\ file' = file /\ calls = <<>>)]_vars

\* a fetch has just failed
C5_Witness == pc = "fetched" /\ fetch_status \in {"500", "exception"}

\* the tick leaves check_recent_tickets (by return or by an exception)
TickEnds == active' < active

\* C6 (as stated): when classifying or notifying one ticket of a tick raised,
\* every eligible ticket later in the batch has been marked and classified by
\* the time the tick ends.
C6_LaterTicketsStillProcessed ==
    [][TickEnds =>
          \A p \in DOMAIN tickets :
              (\E k \in DOMAIN calls :
                  /\ calls[k].pos = p
                  /\ calls[k].op \in {"is_urgent", "send_alert_email"}
                  /\ calls[k].raised) =>
                  \A q \in DOMAIN tickets :
                      (q > p /\ Eligible(tickets[q])) =>
                          /\ CallsAt("mark_processed", q) # {}
                          /\ CallsAt("is_urgent", q) # {}]_vars

\* the loop is at a ticket whose created_at does not parse
AtMalformed == pc = "loop" /\ idx \in DOMAIN tickets /\ ~tickets[idx].valid_ts

\* C7 (as stated): a ticket whose created_at cannot be parsed does not stop the
\* tick, which goes on to the next ticket, and does not stop the scheduler,
\* which is never left dead.
C7_ParseFailureIsLocal ==
    [][/\ (AtMalformed /\ <<pc, idx, schedPc>>' # <<pc, idx, schedPc>>) =>
              (pc' = "loop" /\ idx' = idx + 1 /\ schedPc' = "job")
       /\ schedPc' # "dead"]_vars

\* the reply holds "true" at some place, whatever the case of its letters
HoldsTrueAnywhere(c) ==
    \E k \in 1..(Len(c) - 3) :
        /\ c[k] \in {"t", "T"}
        /\ c[k + 1] \in {"r", "R"}
        /\ c[k + 2] \in {"u"}
        /\ c[k + 3] \in {"e"}

\* C8: is_urgent returns (it does not raise), and it returns true exactly when
\* the model call gave a reply whose content holds "true" at some place, in any
\* case; for any other content, a missing content or an exception it returns
\* false.
C8_UrgentIffReplyHoldsTrue ==
    /\ gptPc \in {"called", "returned"}
    /\ gptPc = "returned" =>
          gptResult = (gptOutcome.kind = "text" /\ HoldsTrueAnywhere(gptOutcome.content))

\* is_urgent returned true on a reply that is not the bare word: it has capitals
\* and text around the word
C8_Witness ==
    /\ gptPc = "returned"
    /\ gptResult
    /\ Len(gptOutcome.content) > 4
    /\ \E k \in DOMAIN gptOutcome.content : gptOutcome.content[k] \in {"T", "R"}

\* the value is_urgent returned for the ticket at place p, if it was called
JudgedUrgent(p) == \E k \in CallsAt("is_urgent", p) : calls[k].ret = "True"

\* C9 (as stated): an eligible ticket judged urgent is marked and the notifier
\* is invoked exactly once for it, with the ticket's subject; one judged not
\* urgent is marked and the notifier is not invoked.
C9_NotifiedOnceWithSubject ==
    InLoop =>
        \A p \in Passed :
            Eligible(tickets[p]) =>
                LET id == tickets[p].id IN
                /\ CallsFor("mark_processed", id) # {}
                /\ JudgedUrgent(p) =>
                      /\ Cardinality(CallsFor("send_alert_email", id)) = 1
                      /\ \A k \in CallsFor("send_alert_email", id) :
                            calls[k].arg = tickets[p].subject
                /\ ~JudgedUrgent(p) => CallsAt("send_alert_email", p) = {}

\* C9 (amended): an eligible ticket judged urgent is marked and the notifier is
\* invoked exactly once for each place the ticket has in the batch, with the
\* ticket's subject or, when the subject is empty, with "No Subject"; one judged
\* not urgent is marked and the notifier is not invoked for it.
C9_NotifiedOncePerPlace ==
    InLoop =>
        \A p \in Passed :
            Eligible(tickets[p]) =>
                /\ Cardinality(CallsAt("mark_processed", p)) = 1
                /\ Cardinality(CallsAt("is_urgent", p)) = 1
                /\ JudgedUrgent(p) =>
                      /\ Cardinality(CallsAt("send_alert_email", p)) = 1
                      /\ \A k \in CallsAt("send_alert_email", p) :
                            calls[k].arg = IF tickets[p].subject = "" THEN "No Subject"
                                           ELSE tickets[p].subject
                /\ ~JudgedUrgent(p) => CallsAt("send_alert_email", p) = {}

\* the loop went past two eligible tickets judged urgent, one with a subject and
\* one without
C9_Witness ==
    /\ InLoop
    /\ \E p, q \in Passed :
          /\ Eligible(tickets[p]) /\ JudgedUrgent(p) /\ tickets[p].subject = "Site down"
          /\ Eligible(tickets[q]) /\ JudgedUrgent(q) /\ tickets[q].subject = ""

\* C10: at no time are two invocations of check_recent_tickets in progress: the
\* scheduler thread is inside the job exactly while one is, and starts no other.
C10_TicksNeverOverlap ==
    /\ active \in {0, 1}
    /\ active = 1 <=> schedPc = "job"
    /\ active = 1 <=> pc # "idle"

\* a tick has been running for a whole period: the job is due again, and the
\* scheduler is still inside it
C10_Witness ==
    /\ active = 1
    /\ schedPc = "job"
    /\ now >= nextRun + EveryPeriod

\* C11: the processed set is append-only: whatever happens (a tick, a failure, a
\* restart), the file keeps every line it had, in place, so that the set
\* read_processed_ids returns only grows.
C11_FileAppendOnly ==
    [][/\ Len(file') >= Len(file)
       /\ SubSeq(file', 1, Len(file)) = file
       /\ read_processed_ids(file) \subseteq read_processed_ids(file')]_vars

\* after a restart, a tick that loaded a non-empty set has appended one more line
C11_Witness ==
    /\ crashes >= 1
    /\ pc = "classify"
    /\ processed_ids # {}
    /\ Len(file) >= 2
    /\ processed_ids # read_processed_ids(file)

\* C12: for each surviving ticket mark_processed comes before is_urgent and
\* before send_alert_email: every such call of the tick follows the mark of its
\* place in the log, and while a ticket is being classified or alerted its
\* identifier is in the file.
C12_MarkedBeforeClassified ==
    InLoop =>
        /\ \A k \in DOMAIN calls :
              calls[k].op \in {"is_urgent", "send_alert_email"} =>
                  /\ \E j \in 1..(k - 1) :
                        calls[j].op = "mark_processed" /\ calls[j].pos = calls[k].pos
                  /\ Str(tickets[calls[k].pos].id) \in read_processed_ids(file)
        /\ pc \in {"classify", "send"} =>
              /\ Str(tickets[idx].id) \in read_processed_ids(file)
              /\ CallsAt("mark_processed", idx) # {}

\* a ticket is being alerted after its classification, and its identifier is in
\* the file though the tick did not load it
C12_Witness ==
    /\ pc = "send"
    /\ Str(tickets[idx].id) \notin processed_ids
    /\ Str(tickets[idx].id) \in read_processed_ids(file)
    /\ CallsAt("is_urgent", idx) # {}

\* the ticket at place p has been marked and classified by the tick
MarkedAndClassified(p) ==
    /\ CallsAt("mark_processed", p) # {}
    /\ CallsAt("is_urgent", p) # {}

\* C14 (as stated): when a tick with a non-empty batch ends, a fetched ticket has
\* been marked and classified if and only if it is eligible (its identifier not
\* in the loaded set, created at or after the cutoff, no responder): no eligible
\* ticket of the batch is left unprocessed.
C14_ProcessedIffEligible ==
    [][(TickEnds /\ tickets # <<>>) =>
          \A p \in DOMAIN tickets : MarkedAndClassified(p) <=> Eligible(tickets[p])]_vars

\* C16 (as stated): no ticket falls between ticks: a ticket that a successful
\* fetch returned unassigned, and that no tick has marked, is never older than
\* the cutoff of the tick that fetched it (it would be skipped by that tick and,
\* the cutoff only moving forward, by every later one).
C16_NoTicketOlderThanCutoff ==
    InLoop =>
        \A p \in DOMAIN tickets :
            (/\ tickets[p].valid_ts
             /\ tickets[p].responder_id = "None"
             /\ Str(tickets[p].id) \notin processed_ids) =>
                tickets[p].created_at >= recent_cutoff

\* the file holds a line for id that the tick under way did not write: an
\* earlier tick marked the ticket
MarkedEarlier(id) == Count(file, Str(id)) > Cardinality(CallsFor("mark_processed", id))

\* C13: there is no replay path: a ticket marked by an earlier tick, however that
\* tick went on (its classification raised, its send failed, the process was
\* killed after the mark), gets no call at all in a later tick, before or after
\* a restart: it is not classified, not alerted and not marked again.
C13_NoReplay ==
    InLoop =>
        \A id \in Ids :
            MarkedEarlier(id) =>
                /\ Str(id) \in processed_ids
                /\ \A k \in DOMAIN calls : tickets[calls[k].pos].id # id

\* after a restart the loop went past a recent, unassigned ticket that was
\* marked before and for which the notifier was never invoked
C13_Witness ==
    /\ crashes >= 1
    /\ InLoop
    /\ \E p \in Passed :
          /\ Str(tickets[p].id) \in processed_ids
          /\ Recent(tickets[p])
          /\ tickets[p].responder_id = "None"
          /\ tickets[p].id \notin alerted

\* the step under way invokes send_alert_email for the ticket with identifier id
Invokes(id) ==
    /\ pc = "send"
    /\ tickets[idx].id = id
    /\ Len(calls') = Len(calls) + 1

\* the batch of the tick holds identifier id once
HeldOnce(id) == Cardinality({p \in DOMAIN tickets : tickets[p].id = id}) = 1

\* C15: over any sequence of ticks, with the process killed and restarted at any
\* point, send_alert_email is invoked for an identifier that the batch holds
\* once only if it was never invoked for it before; and every identifier it was
\* invoked for is in the file.
C15_AlertedAtMostOnce ==
    [][/\ \A id \in Ids : (Invokes(id) /\ HeldOnce(id)) => id \notin alerted
       /\ \A id \in alerted' : Str(id) \in read_processed_ids(file')]_vars

\* after a restart the loop went past a recent, unassigned ticket, held once by
\* the batch, for which the notifier was invoked before the restart
C15_Witness ==
    /\ crashes >= 1
    /\ InLoop
    /\ \E p \in Passed :
          /\ tickets[p].id \in alerted
          /\ HeldOnce(tickets[p].id)
          /\ CallsFor("send_alert_email", tickets[p].id) = {}
          /\ Recent(tickets[p])
          /\ tickets[p].responder_id = "None"

====
